---- MODULE Spec2Model ----
(***************************************************************************)
(* Model of the fdsanalytics agent package:                                *)
(*   agent/test_agent.py  - the test harness (main, test_agent)            *)
(*   agent/deploy.py      - the deployment script (module body)            *)
(*   agent/agent.py       - root_agent: an LlmAgent with the OpenAPI tools *)
(* Three specifications, one per program: Spec (harness), SpecDeploy and   *)
(* SpecAgent.  The programs share only the .agent_resource file.           *)
(***************************************************************************)
EXTENDS Integers, Sequences, FiniteSets, TLC

VARIABLES
    \* ---- test_agent.py ----
    h_pc,            \* position of the harness process
    resource_name,   \* main(): resolved resource name
    session,         \* test_agent(): the session returned by async_create_session
    qi,              \* 1-based index of the loop over TEST_QUERIES
    response_parts,  \* list of collected fragments of the current query
    full_response,   \* "".join(response_parts), as last assigned
    passed,          \* counter
    failed,          \* counter
    h_exit,          \* exit code of the harness process
    sent,            \* calls of remote_app.async_stream_query made so far
    produced,        \* events the current stream has yielded so far
    stream_end,      \* how the last stream ended
    outcomes,        \* what each finished stream really delivered
    results,         \* the verdict line printed for each query
    \* ---- deploy.py ----
    d_pc,            \* position of the deployment script
    d_env,           \* configuration read from the environment
    d_log,           \* the step banners and their results printed so far
    remote_app,      \* resource name returned by agent_engines.create
    d_exit,          \* exit code of the deployment script
    resource_file,   \* content of the .agent_resource file
    \* ---- agent.py ----
    a_pc,            \* state of the turn run by root_agent
    a_proposal,      \* the function call the language model proposed
    a_dispatched     \* tool calls sent to the tool server

hvars == <<h_pc, resource_name, session, qi, response_parts, full_response,
           passed, failed, h_exit, sent, produced, stream_end, outcomes, results>>
dvars == <<d_pc, d_env, d_log, remote_app, d_exit>>
avars == <<a_pc, a_proposal, a_dispatched>>
vars == <<hvars, dvars, avars, resource_file>>

\* ---------------------------------------------------------------- bounds
MaxEvents == 2      \* events one stream yields at most
MaxToolCalls == 2   \* tool calls dispatched at most

\* ------------------------------------------------------ values and helpers
None == "None"
\* An unset name (Python None) and an absent file.
NoName == <<>>
NoFile == [exists |-> FALSE, content |-> <<>>]
File(text) == [exists |-> TRUE, content |-> text]
\* The process has not ended.
NoExit == 0 - 1

\* Text is a sequence of characters; "" is <<>>.
Texts == {<<>>, <<"a">>, <<"b">>}

\* An event of the stream: it may lack a text attribute altogether.
Events == [hasText : {TRUE}, text : Texts] \cup [hasText : {FALSE}, text : {<<>>}]

\* "".join(parts)
RECURSIVE Join(_)
Join(parts) == IF parts = <<>> THEN <<>> ELSE Head(parts) \o Join(Tail(parts))

\* The text the producer has delivered: the texts of its events, in order
\* of arrival, one after the other.
RECURSIVE Delivered(_)
Delivered(evs) ==
    IF evs = <<>> THEN <<>>
    ELSE LET n == Len(evs)
         IN Delivered(SubSeq(evs, 1, n - 1)) \o evs[n].text

\* test_agent.py:135-136, the body of the async for.
CollectReplace(parts, event) ==
    IF event.hasText /\ event.text # <<>> THEN <<event.text>> ELSE parts

CollectPrepend(parts, event) ==
    IF event.hasText /\ event.text # <<>> THEN <<event.text>> \o parts ELSE parts

Collect(parts, event) ==
    IF event.hasText /\ event.text # <<>> THEN Append(parts, event.text) ELSE parts

\* test_agent.py:140, the truth value of full_response.
VerdictAlways(full) == TRUE

Verdict(full) == full # <<>>

\* test_agent.py:198, sys.exit(0 if success else 1).
ExitCode(success) == IF success THEN 0 ELSE 1

\* test_agent.py:34-60, TEST_QUERIES has five entries.
NumQueries == 5

\* str.strip() on the content of the resource file (a sequence of characters).
WS == {" ", "\n"}
RECURSIVE LStrip(_)
LStrip(s) == IF s # <<>> /\ Head(s) \in WS THEN LStrip(Tail(s)) ELSE s
RECURSIVE RStrip(_)
RStrip(s) == IF s # <<>> /\ s[Len(s)] \in WS
             THEN RStrip(SubSeq(s, 1, Len(s) - 1)) ELSE s
Strip(s) == RStrip(LStrip(s))

ResourceNames == {<<"r", "1">>, <<"r", "2">>}
SessionIds == {"s1", "s2"}

\* ========================================================= test_agent.py
HarnessIdle ==
    /\ h_pc = "idle" /\ resource_name = NoName /\ session = None /\ qi = 1
    /\ response_parts = <<>> /\ full_response = <<>>
    /\ passed = 0 /\ failed = 0 /\ h_exit = NoExit
    /\ sent = <<>> /\ produced = <<>> /\ stream_end = "none"
    /\ outcomes = <<>> /\ results = <<>>

HarnessStart ==
    /\ h_pc = "main" /\ resource_name = NoName /\ session = None /\ qi = 1
    /\ response_parts = <<>> /\ full_response = <<>>
    /\ passed = 0 /\ failed = 0 /\ h_exit = NoExit
    /\ sent = <<>> /\ produced = <<>> /\ stream_end = "none"
    /\ outcomes = <<>> /\ results = <<>>

HExit(code) ==
    /\ h_pc' = "exited"
    /\ h_exit' = code

\* main(), lines 175-193: the resource name comes from --resource or from
\* the .agent_resource file; without either the process exits with 1.
Main ==
    /\ h_pc = "main"
    /\ \E hasArg \in BOOLEAN, arg \in ResourceNames :
         IF hasArg
         THEN /\ resource_name' = arg
              /\ h_pc' = "init"
              /\ h_exit' = h_exit
         ELSE IF resource_file.exists
         THEN /\ resource_name' = Strip(resource_file.content)
              /\ h_pc' = "init"
              /\ h_exit' = h_exit
         ELSE /\ resource_name' = resource_name
              /\ HExit(1)
    /\ UNCHANGED <<session, qi, response_parts, full_response, passed, failed,
                   sent, produced, stream_end, outcomes, results>>
    /\ UNCHANGED <<dvars, avars, resource_file>>

\* test_agent(), lines 75-81: vertexai.init is not guarded; an exception
\* leaves the process through asyncio.run with exit code 1.
InitSDK ==
    /\ h_pc = "init"
    /\ \E ok \in BOOLEAN :
         IF ok THEN h_pc' = "connect" /\ h_exit' = h_exit
         ELSE HExit(1)
    /\ UNCHANGED <<resource_name, session, qi, response_parts, full_response,
                   passed, failed, sent, produced, stream_end, outcomes, results>>
    /\ UNCHANGED <<dvars, avars, resource_file>>

\* lines 85-96: agent_engines.get, sys.exit(1) on failure.
Connect ==
    /\ h_pc = "connect"
    /\ \E ok \in BOOLEAN :
         IF ok THEN h_pc' = "create_session" /\ h_exit' = h_exit
         ELSE HExit(1)
    /\ UNCHANGED <<resource_name, session, qi, response_parts, full_response,
                   passed, failed, sent, produced, stream_end, outcomes, results>>
    /\ UNCHANGED <<dvars, avars, resource_file>>

\* lines 100-109: async_create_session, sys.exit(1) on failure.
CreateSession ==
    /\ h_pc = "create_session"
    /\ \E sid \in SessionIds \cup {None} :
         IF sid # None
         THEN /\ session' = sid
              /\ h_pc' = "loop"
              /\ h_exit' = h_exit
         ELSE /\ session' = session
              /\ HExit(1)
    /\ UNCHANGED <<resource_name, qi, response_parts, full_response,
                   passed, failed, sent, produced, stream_end, outcomes, results>>
    /\ UNCHANGED <<dvars, avars, resource_file>>

\* lines 121-133: the next iteration of the for loop starts: response_parts
\* is rebound to a new list and the query is sent on the session.
StartQuery ==
    /\ h_pc = "loop"
    /\ qi <= NumQueries
    /\ response_parts' = <<>>
    /\ produced' = <<>>
    /\ stream_end' = "open"
    /\ sent' = Append(sent, [query |-> qi, session |-> session])
    /\ h_pc' = "streaming"
    /\ UNCHANGED <<resource_name, session, qi, full_response, passed, failed,
                   h_exit, outcomes, results>>
    /\ UNCHANGED <<dvars, avars, resource_file>>

\* lines 129-136: the stream yields one more event.
StreamEvent ==
    /\ h_pc = "streaming"
    /\ Len(produced) < MaxEvents
    /\ \E event \in Events :
         /\ produced' = Append(produced, event)
         /\ response_parts' = Collect(response_parts, event)
    /\ UNCHANGED <<h_pc, resource_name, session, qi, full_response, passed,
                   failed, h_exit, sent, stream_end, outcomes, results>>
    /\ UNCHANGED <<dvars, avars, resource_file>>

\* The end of one iteration: the loop's next position.
NextPc(i) == IF i = NumQueries THEN "summary" ELSE "loop"

\* lines 138-151: the stream is exhausted; join, judge, count.
StreamEnd ==
    /\ h_pc = "streaming"
    /\ LET full == Join(response_parts)
       IN /\ full_response' = full
          /\ IF Verdict(full)
             THEN /\ passed' = passed + 1
                  /\ failed' = failed
                  /\ results' = Append(results, "passed")
             ELSE /\ passed' = passed
                  /\ failed' = failed + 1
                  /\ results' = Append(results, "failed")
    /\ stream_end' = "completed"
    /\ outcomes' = Append(outcomes,
                     IF Delivered(produced) # <<>> THEN "text" ELSE "empty")
    /\ qi' = qi + 1
    /\ h_pc' = NextPc(qi)
    /\ UNCHANGED <<resource_name, session, response_parts, h_exit, sent, produced>>
    /\ UNCHANGED <<dvars, avars, resource_file>>

\* lines 153-155: the stream raises an Exception; the handler counts the
\* query as failed and the loop goes on.
StreamFault ==
    /\ h_pc = "streaming"
    /\ failed' = failed + 1
    /\ results' = Append(results, "failed")
    /\ stream_end' = "fault"
    /\ outcomes' = Append(outcomes, "fault")
    /\ qi' = qi + 1
    /\ h_pc' = NextPc(qi)
    /\ UNCHANGED <<resource_name, session, response_parts, full_response,
                   passed, h_exit, sent, produced>>
    /\ UNCHANGED <<dvars, avars, resource_file>>

\* lines 129-133, 153: the task is cancelled while it awaits the next event.
\* CancelledError is not an Exception: the handler of line 153 does not
\* catch it, test_agent() is left and the process ends without a summary
\* (exit code 1, or 130 when the cancellation is a keyboard interrupt).
StreamCancel ==
    /\ h_pc = "streaming"
    /\ stream_end' = "cancelled"
    /\ h_pc' = "aborted"
    /\ h_exit' \in {1, 130}
    /\ UNCHANGED <<resource_name, session, qi, response_parts, full_response,
                   passed, failed, sent, produced, outcomes, results>>
    /\ UNCHANGED <<dvars, avars, resource_file>>

\* lines 159-169 and 196-198: the summary, then sys.exit.
Summary ==
    /\ h_pc = "summary"
    /\ HExit(ExitCode(failed = 0))
    /\ UNCHANGED <<resource_name, session, qi, response_parts, full_response,
                   passed, failed, sent, produced, stream_end, outcomes, results>>
    /\ UNCHANGED <<dvars, avars, resource_file>>

NextHarness ==
    \/ Main \/ InitSDK \/ Connect \/ CreateSession \/ StartQuery
    \/ StreamEvent \/ StreamEnd \/ StreamFault \/ StreamCancel \/ Summary

\* The harness is started with or without a resource file left by an
\* earlier deployment.
HarnessFiles ==
    {NoFile} \cup {File(n) : n \in ResourceNames}
             \cup {File(n \o <<"\n">>) : n \in ResourceNames}

\* ============================================================== deploy.py
\* lines 25-31: os.getenv(name, default).
Getenv(env, name, default) == IF name \in DOMAIN env THEN env[name] ELSE default

\* The environments the script is started in: each of the four variables
\* is set (to a value of its own) or not.
EnvNames == {"PROJECT_ID", "REGION", "STAGING_BUCKET", "AGENT_DISPLAY_NAME"}
Environments ==
    UNION {[names -> {"custom"}] : names \in SUBSET EnvNames}

\* line 29: f"gs://{PROJECT_ID}-agent-staging".
DefaultBucket(project) ==
    IF project = "fdsanalytics" THEN "gs://fdsanalytics-agent-staging"
    ELSE "gs://custom-agent-staging"

Config(env) ==
    LET project == Getenv(env, "PROJECT_ID", "fdsanalytics")
    IN [PROJECT_ID |-> project,
        REGION |-> Getenv(env, "REGION", "us-central1"),
        STAGING_BUCKET |-> Getenv(env, "STAGING_BUCKET", DefaultBucket(project)),
        AGENT_DISPLAY_NAME |-> Getenv(env, "AGENT_DISPLAY_NAME", "FDS Analytics Agent")]

DeployIdle ==
    /\ d_pc = "idle" /\ d_env = Config(<<>>) /\ d_log = <<>>
    /\ remote_app = NoName /\ d_exit = NoExit

DeployStart ==
    /\ d_pc = "import"
    /\ \E env \in Environments : d_env = Config(env)
    /\ d_log = <<>>
    /\ remote_app = NoName /\ d_exit = NoExit

\* The steps of the script in program order.
Steps == <<"init", "wrap", "deploy", "save">>

\* Where the script goes after a step: every handler but the last one ends
\* in sys.exit(1) (lines 51-53, 63-65, 80-82); the handler of the save step
\* only warns (lines 91-92).
AfterStepKeepGoing(step, ok) ==
    CASE step = "init" -> "wrap"
      [] step = "wrap" -> "deploy"
      [] step = "deploy" -> "save"
      [] step = "save" -> "summary"

AfterStep(step, ok) ==
    CASE step = "init" -> IF ok THEN "wrap" ELSE "exit1"
      [] step = "wrap" -> IF ok THEN "deploy" ELSE "exit1"
      [] step = "deploy" -> IF ok THEN "save" ELSE "exit1"
      [] step = "save" -> "summary"

DGoto(target) ==
    IF target = "exit1"
    THEN d_pc' = "exited" /\ d_exit' = 1
    ELSE d_pc' = target /\ d_exit' = d_exit

\* lines 17-19: the imports; "from agent import root_agent" runs agent.py,
\* which opens the OpenAPI file.  An exception here is not handled: the
\* process ends with code 1 before the first step.
DImport ==
    /\ d_pc = "import"
    /\ \E ok \in BOOLEAN : DGoto(IF ok THEN "init" ELSE "exit1")
    /\ UNCHANGED <<d_env, d_log, remote_app, resource_file>>
    /\ UNCHANGED <<hvars, avars>>

\* lines 42-53: vertexai.init.
DInit ==
    /\ d_pc = "init"
    /\ \E ok \in BOOLEAN :
         /\ d_log' = Append(d_log, [step |-> "init", ok |-> ok])
         /\ DGoto(AfterStep("init", ok))
    /\ UNCHANGED <<d_env, remote_app, resource_file>>
    /\ UNCHANGED <<hvars, avars>>

\* lines 55-65: agent_engines.AdkApp.
DWrap ==
    /\ d_pc = "wrap"
    /\ \E ok \in BOOLEAN :
         /\ d_log' = Append(d_log, [step |-> "wrap", ok |-> ok])
         /\ DGoto(AfterStep("wrap", ok))
    /\ UNCHANGED <<d_env, remote_app, resource_file>>
    /\ UNCHANGED <<hvars, avars>>

\* lines 67-82: agent_engines.create; remote_app is bound on success only.
DDeploy ==
    /\ d_pc = "deploy"
    /\ \E ok \in BOOLEAN, name \in ResourceNames :
         /\ d_log' = Append(d_log, [step |-> "deploy", ok |-> ok])
         /\ remote_app' = IF ok THEN name ELSE remote_app
         /\ DGoto(AfterStep("deploy", ok))
    /\ UNCHANGED <<d_env, resource_file>>
    /\ UNCHANGED <<hvars, avars>>

\* lines 84-92: open(resource_file, "w") and write.  open may fail (the file
\* is untouched), write may fail (the file was truncated), or both succeed.
DSave ==
    /\ d_pc = "save"
    /\ \E how \in {"open_fails", "write_fails", "ok"} :
         /\ d_log' = Append(d_log, [step |-> "save", ok |-> (how = "ok")])
         /\ resource_file' = CASE how = "open_fails" -> resource_file
                               [] how = "write_fails" -> File(<<>>)
                               [] how = "ok" -> File(remote_app)
         /\ DGoto(AfterStep("save", how = "ok"))
    /\ UNCHANGED <<d_env, remote_app>>
    /\ UNCHANGED <<hvars, avars>>

\* lines 94-106: the summary is printed and the script runs off its end.
DSummary ==
    /\ d_pc = "summary"
    /\ d_pc' = "exited"
    /\ d_exit' = 0
    /\ UNCHANGED <<d_env, d_log, remote_app, resource_file>>
    /\ UNCHANGED <<hvars, avars>>

NextDeploy == DImport \/ DInit \/ DWrap \/ DDeploy \/ DSave \/ DSummary

\* =============================================================== agent.py
\* lines 36-68: the eight tools the instructions advertise.
Operations ==
    {"show_daily_sales", "show_top_items", "show_category_breakdown",
     "get_total_sales", "find_peak_day", "compare_day_types",
     "track_item_performance", "compare_periods"}

\* line 72: the tenant the instructions tell the model to use.
TENANT == "senso-sushi"

\* What the language model may put into the tenant_id argument of a
\* function call: the tenant of the instructions, another one, or nothing.
\* The instructions are text given to a sampled model (lines 104-107).
ProposedTenants == {TENANT, "other-tenant", None}

AgentIdle ==
    /\ a_pc = "idle" /\ a_proposal = None /\ a_dispatched = <<>>

AgentStart ==
    /\ a_pc = "AwaitingUser" /\ a_proposal = None /\ a_dispatched = <<>>

\* The tenant_id the dispatched request carries for a proposed value.
\* root_agent is built from the model, the instructions and the toolset
\* alone (lines 30-108): no callback or fixed argument rewrites the call, so
\* a proposed value is sent as it is; a value the model left out stays out
\* or is filled from the default of the OpenAPI schema.
SentTenants(proposed) ==
    IF proposed = None THEN {None, TENANT} ELSE {proposed}

\* A user message starts a turn.
UserMessage ==
    /\ a_pc \in {"AwaitingUser", "Done"}
    /\ a_pc' = "AwaitingIntent"
    /\ UNCHANGED <<a_proposal, a_dispatched>>
    /\ UNCHANGED <<hvars, dvars, resource_file>>

\* The model answers with a function call on one of the tools.
ModelToolCall ==
    /\ a_pc = "AwaitingIntent"
    /\ Len(a_dispatched) < MaxToolCalls
    /\ \E op \in Operations, t \in ProposedTenants :
         a_proposal' = [op |-> op, tenant_id |-> t]
    /\ a_pc' = "Proposed"
    /\ UNCHANGED a_dispatched
    /\ UNCHANGED <<hvars, dvars, resource_file>>

\* The toolset (lines 22-27, 103) sends the call to the tool server.
Dispatch ==
    /\ a_pc = "Proposed"
    /\ \E t \in SentTenants(a_proposal.tenant_id) :
         a_dispatched' = Append(a_dispatched, [op |-> a_proposal.op, tenant_id |-> t])
    /\ a_pc' = "AwaitingIntent"
    /\ UNCHANGED a_proposal
    /\ UNCHANGED <<hvars, dvars, resource_file>>

\* The model answers with text: the turn is over.
ModelFinalAnswer ==
    /\ a_pc = "AwaitingIntent"
    /\ a_pc' = "Done"
    /\ UNCHANGED <<a_proposal, a_dispatched>>
    /\ UNCHANGED <<hvars, dvars, resource_file>>

NextAgent == UserMessage \/ ModelToolCall \/ Dispatch \/ ModelFinalAnswer

\* ========================================================= specifications
Init ==
    /\ HarnessStart /\ DeployIdle /\ AgentIdle
    /\ resource_file \in HarnessFiles

Next == NextHarness

\* The test harness.
Spec == Init /\ [][Next]_vars

InitDeploy ==
    /\ DeployStart /\ HarnessIdle /\ AgentIdle
    /\ resource_file \in {NoFile} \cup {File(n) : n \in ResourceNames}

\* The deployment script.
SpecDeploy == InitDeploy /\ [][NextDeploy]_vars

InitAgent ==
    /\ AgentStart /\ HarnessIdle /\ DeployIdle
    /\ resource_file = NoFile

\* The agent.
SpecAgent == InitAgent /\ [][NextAgent]_vars

\* ================================================================= claims
Passed(k) == results[k] = "passed"
Count(seq, v) == Cardinality({k \in 1..Len(seq) : seq[k] = v})
ReachedLoop == session # None

\* C1: every tool call dispatched to the tool server carries
\* tenant_id = "senso-sushi", whatever tenant the model proposed.
TenantOverride ==
    \A k \in 1..Len(a_dispatched) : a_dispatched[k].tenant_id = TENANT

\* C3: when the stream completes normally, the collected reply is the
\* concatenation, in arrival order, of exactly the text fragments produced.
AggregationPreservesOrder ==
    stream_end = "completed" => full_response = Delivered(produced)

AggregationWitness ==
    /\ stream_end = "completed"
    /\ Len(produced) = 2
    /\ produced[1].text = <<"a">> /\ produced[2].text = <<"b">>
    /\ full_response = <<"a", "b">>

DeployOk == \E k \in 1..Len(d_log) : d_log[k].step = "deploy" /\ d_log[k].ok

DeployFailFast ==
    /\ Len(d_log) <= Len(Steps)
    /\ \A k \in 1..Len(d_log) : d_log[k].step = Steps[k]
    /\ \A k \in 1..Len(d_log) :
         (~d_log[k].ok /\ d_log[k].step # "save") =>
             k = Len(d_log) /\ d_pc = "exited" /\ d_exit = 1
    /\ (\E k \in 1..Len(d_log) : d_log[k].step = "save") =>
           DeployOk /\ remote_app # NoName
    /\ resource_file.exists /\ resource_file.content = <<>> =>
           DeployOk
    /\ d_exit = 0 => DeployOk /\ remote_app # NoName
    /\ d_pc = "exited" => d_exit \in {0, 1}
    /\ d_exit = 1 => d_log = <<>> \/ ~d_log[Len(d_log)].ok

DeployFailFastWitness ==
    /\ d_pc = "exited" /\ d_exit = 1
    /\ Len(d_log) = 3 /\ ~d_log[3].ok
    /\ remote_app = NoName

\* C10: once the session exists, every query of TEST_QUERIES is sent once, in
\* order, on that session; a query is counted as passed exactly when its
\* stream completed with a non-empty text, a fault counts it as failed and
\* the loop goes on; at the summary passed + failed is the number of
\* queries, and the exit code is 0 exactly when failed = 0, else 1.
HarnessAccounting ==
    /\ \A k \in 1..Len(sent) : sent[k].query = k /\ sent[k].session = session
    /\ Len(sent) <= NumQueries
    /\ Len(results) = Len(outcomes)
    /\ \A k \in 1..Len(results) : Passed(k) <=> outcomes[k] = "text"
    /\ passed = Count(results, "passed")
    /\ failed = Count(results, "failed")
    /\ h_pc \in {"loop", "summary"} => Len(sent) = Len(results)
    /\ h_pc = "loop" => qi <= NumQueries
    /\ (h_pc = "summary" \/ (h_pc = "exited" /\ ReachedLoop)) =>
           /\ Len(sent) = NumQueries
           /\ passed + failed = NumQueries
    /\ (h_pc = "exited" /\ ReachedLoop) =>
           /\ h_exit \in {0, 1}
           /\ h_exit = 0 <=> failed = 0

HarnessAccountingWitness ==
    /\ h_pc = "exited" /\ h_exit = 1
    /\ Len(sent) = NumQueries
    /\ outcomes[1] = "fault" /\ outcomes[2] = "text" /\ outcomes[3] = "empty"
    /\ outcomes[5] = "text"
    /\ passed = 2 /\ failed = 3

====
